---- MODULE Spec2Model ----
(***************************************************************************)
(* Health aggregation and dependency-impact model of the healthmodel      *)
(* package: the entity graph of HealthModelConfig, the records the REST   *)
(* client returns, and the views HealthModelIntegration derives from them. *)
(***************************************************************************)
EXTENDS Integers, Sequences, FiniteSets, TLC

\* ------------------------------------------------------------------ bounds

\* Largest number of dependency edges added to a configuration.
MaxDeps == 3
\* Largest number of records in a snapshot handed over by a stub client.
MaxRecords == 3
\* Largest number of items in the "value" list of one list response.
MaxItems == 2
\* Largest number of dependency edges under the health tree.
MaxTreeDeps == 2
\* Largest number of items the remote model lists while a report is built.
MaxReportItems == 1

\* ----------------------------------------------------------- Python values

None == "None"
Now == "now"
EmptyDict == [k \in {} |-> None]

\* mapping.get(key, default) on a mapping with string keys
Get(d, key, default) == IF key \in DOMAIN d THEN d[key] ELSE default

\* An insertion-ordered dict is a sequence of [key, value] with distinct keys.
DictKeys(d) == [i \in 1..Len(d) |-> d[i].key]
DictHas(d, k) == \E i \in 1..Len(d) : d[i].key = k
DictGet(d, k, default) ==
    IF DictHas(d, k) THEN d[CHOOSE i \in 1..Len(d) : d[i].key = k].value ELSE default
\* faulty variant: an existing key keeps its value
DictSetDefault(d, k, v) ==
    IF DictHas(d, k) THEN d ELSE Append(d, [key |-> k, value |-> v])

\* d[k] = v: an existing key keeps its position, a new key goes last
DictSet(d, k, v) ==
    IF DictHas(d, k)
    THEN [i \in 1..Len(d) |-> IF d[i].key = k THEN [key |-> k, value |-> v] ELSE d[i]]
    ELSE Append(d, [key |-> k, value |-> v])

Range(s) == {s[i] : i \in 1..Len(s)}

\* str.lower() and str.upper() on the state strings that occur
lower(s) ==
    CASE s = "Healthy" -> "healthy"     [] s = "healthy" -> "healthy"
      [] s = "HEALTHY" -> "healthy"
      [] s = "Degraded" -> "degraded"   [] s = "DEGRADED" -> "degraded"
      [] s = "degraded" -> "degraded"
      [] s = "Unhealthy" -> "unhealthy" [] s = "UNHEALTHY" -> "unhealthy"
      [] s = "unHealthy" -> "unhealthy"
      [] s = "Unknown" -> "unknown"
      [] s = "Critical" -> "critical"   [] s = "Error" -> "error"
      [] s = "" -> ""
upper(s) ==
    CASE s = "Healthy" -> "HEALTHY"     [] s = "healthy" -> "HEALTHY"
      [] s = "HEALTHY" -> "HEALTHY"
      [] s = "Degraded" -> "DEGRADED"   [] s = "DEGRADED" -> "DEGRADED"
      [] s = "degraded" -> "DEGRADED"
      [] s = "Unhealthy" -> "UNHEALTHY" [] s = "UNHEALTHY" -> "UNHEALTHY"
      [] s = "unHealthy" -> "UNHEALTHY"
      [] s = "Unknown" -> "UNKNOWN"
      [] s = "Critical" -> "CRITICAL"   [] s = "Error" -> "ERROR"
      [] s = "" -> ""

\* ------------------------------------------------------------ configuration

\* The entity types: member name and value.
EntityType ==
    [WORKLOAD |-> "workload", SERVICE |-> "service", DATABASE |-> "database",
     VM |-> "virtual_machine", CONTAINER |-> "container", API |-> "api",
     LOAD_BALANCER |-> "load_balancer", CACHE |-> "cache",
     MESSAGE_QUEUE |-> "message_queue", CUSTOM |-> "custom"]

\* Entities handed to add_entity ("api" comes in two versions); entity_type
\* is the member of EntityType.
HealthModelEntity ==
    { [id |-> "root", name |-> "Shop", entity_type |-> "WORKLOAD",
       description |-> "Online shop", parent_entity_id |-> None,
       azure_resource_id |-> None, signals |-> EmptyDict, metadata |-> EmptyDict],
      [id |-> "api", name |-> "API Gateway", entity_type |-> "API",
       description |-> "", parent_entity_id |-> "root",
       azure_resource_id |-> "/subscriptions/s1/apim",
       signals |-> [response_time |-> "api_response_time_p95"],
       metadata |-> [tier |-> "premium"]],
      [id |-> "api", name |-> "API v2", entity_type |-> "VM",
       description |-> "Gateway host", parent_entity_id |-> "root",
       azure_resource_id |-> None, signals |-> EmptyDict, metadata |-> EmptyDict],
      [id |-> "db", name |-> "Orders DB", entity_type |-> "DATABASE",
       description |-> "Order store", parent_entity_id |-> "backend",
       azure_resource_id |-> "/subscriptions/s1/sql",
       signals |-> EmptyDict, metadata |-> [owner |-> "data"]] }

Dep(s, t, ty, c) ==
    [source_entity_id |-> s, target_entity_id |-> t,
     dependency_type |-> ty, criticality |-> c]

\* Edges handed to add_dependency: a chain, a second path to db, a cycle,
\* non-critical edges, an unlisted criticality, endpoints that are no entity
\* and a self-loop.
EntityDependency ==
    { Dep("db", "api", "direct", "high"),
      Dep("api", "root", "direct", "critical"),
      Dep("db", "root", "direct", "critical"),
      Dep("root", "db", "direct", "high"),
      Dep("db", "api", "optional", "medium"),
      Dep("db", "root", "indirect", "low"),
      Dep("db", "cache", "direct", "urgent"),
      Dep("cache", "root", "direct", "high"),
      Dep("root", "root", "direct", "critical") }

\* Edges added under the health tree
TreeDependency ==
    { Dep("db", "api", "direct", "high"),
      Dep("api", "root", "direct", "critical") }

EntityIds == {"root", "api", "db", "cache"}

VARIABLES
    entities,       \* config.entities: id -> entity, insertion-ordered
    dependencies,   \* config.dependencies: list of edges
    last_modified,  \* config.last_modified
    api_client,     \* the client the integration was constructed with
    all_health,     \* the records the last query fetched (its local all_health)
    op,             \* the last operation called, with its argument
    result          \* what it returned

vars == <<entities, dependencies, last_modified, api_client, all_health, op, result>>
config == <<entities, dependencies, last_modified>>

\* ------------------------------------------------------------- REST client

HealthState ==
    [HEALTHY |-> "Healthy", DEGRADED |-> "Degraded",
     UNHEALTHY |-> "Unhealthy", UNKNOWN |-> "Unknown"]

\* faulty variant: an unknown state is shown in red
state_colors_unknown_red ==
    [HEALTHY |-> "green", DEGRADED |-> "amber", UNHEALTHY |-> "red", UNKNOWN |-> "red"]

state_colors ==
    [HEALTHY |-> "green", DEGRADED |-> "amber", UNHEALTHY |-> "red", UNKNOWN |-> "gray"]

RootKind == "System_HealthModelRoot"

\* Items of the list response's "value": healthState in several letter cases,
\* unrecognised, null (not a string) and absent; "properties" absent.
ApiItems ==
    { [id |-> "root", name |-> "shop",
       properties |-> [healthState |-> "Healthy", kind |-> RootKind,
                       displayName |-> "Shop", timestamp |-> "t1"]],
      [id |-> "api", name |-> "api-gw",
       properties |-> [healthState |-> "degraded", kind |-> "Entity"]],
      [id |-> "db", name |-> "orders",
       properties |-> [healthState |-> "UNHEALTHY", displayName |-> "Orders DB",
                       timestamp |-> "t2"]],
      [id |-> "db", name |-> "orders", properties |-> [healthState |-> None]],
      [id |-> "api", name |-> "api-gw",
       properties |-> [healthState |-> "Error", kind |-> RootKind]],
      [id |-> "cache", name |-> "redis"] }

\* The outcome of session.get + raise_for_status + json(): a RequestException
\* or the decoded document's "value" list.
Responses ==
    {[raises |-> "RequestException", value |-> <<>>]}
    \cup {[raises |-> None, value |-> v] :
             v \in UNION {[1..n -> ApiItems] : n \in 0..MaxItems}}

IsStr(x) == x # None

\* faulty variant: healthState is looked up as it is spelt
_normalize_response_case_sensitive(data) ==
    LET properties == Get(data, "properties", EmptyDict)
        state_str == Get(properties, "healthState", "Unknown")
        health_state ==
            IF IsStr(state_str) /\ state_str \in DOMAIN HealthState
            THEN state_str
            ELSE "UNKNOWN"
    IN  [entity_id |-> Get(data, "id", None),
         entity_name |-> Get(data, "name", None),
         state |-> HealthState[health_state],
         state_code |-> health_state,
         state_color |-> state_colors[health_state],
         timestamp |-> Get(properties, "timestamp", Now),
         signals |-> Get(properties, "signals", <<>>),
         details |-> properties]

_normalize_response(data) ==
    LET properties == Get(data, "properties", EmptyDict)
        state_str == Get(properties, "healthState", "Unknown")
        health_state ==
            IF IsStr(state_str) /\ upper(state_str) \in DOMAIN HealthState
            THEN upper(state_str)
            ELSE "UNKNOWN"
    IN  [entity_id |-> Get(data, "id", None),
         entity_name |-> Get(data, "name", None),
         state |-> HealthState[health_state],
         state_code |-> health_state,
         state_color |-> state_colors[health_state],
         timestamp |-> Get(properties, "timestamp", Now),
         signals |-> Get(properties, "signals", <<>>),
         details |-> properties]

RECURSIVE normalize_items(_, _)
normalize_items(items, entities_) ==
    IF items = <<>> THEN entities_
    ELSE normalize_items(Tail(items),
             DictSet(entities_, Get(Head(items), "id", None),
                     _normalize_response(Head(items))))

\* HealthStateClient.get_all_entities_health over one request outcome
get_all_entities_health(response) ==
    IF response.raises = "RequestException" THEN <<>>
    ELSE normalize_items(response.value, <<>>)

\* The outcome of the request for one entity: a RequestException (an HTTP
\* error status such as 404 for an unknown id, or no connection) with its
\* text, or the decoded document.
EntityResponses ==
    {[raises |-> "RequestException", error |-> e] :
        e \in {"404 Client Error: Not Found", "Connection timed out"}}
    \cup {[raises |-> None, value |-> item] : item \in ApiItems}

\* faulty variant: a failed request yields a record without state keys
_error_response_stateless(entity_id, error) ==
    [entity_id |-> entity_id, error |-> error, timestamp |-> Now]

_error_response(entity_id, error) ==
    [entity_id |-> entity_id,
     state |-> HealthState.UNKNOWN,
     state_code |-> "UNKNOWN",
     state_color |-> "gray",
     error |-> error,
     timestamp |-> Now]

\* HealthStateClient.get_entity_health_state over one request outcome
get_entity_health_state(entity_id, response) ==
    IF response.raises = "RequestException"
    THEN _error_response(entity_id, response.error)
    ELSE _normalize_response(response.value)

\* --------------------------------------------------------------- records

\* Records a stub client hands over: any state string, any subset of the keys.
HealthRecords ==
    { [state |-> "Healthy", state_color |-> "green", timestamp |-> "t1",
       details |-> [kind |-> RootKind, displayName |-> "Shop"]],
      [state |-> "Unhealthy", state_color |-> "red", timestamp |-> "t2",
       details |-> [kind |-> RootKind]],
      [state |-> "HEALTHY", state_color |-> "green", timestamp |-> "t1",
       details |-> [kind |-> "Entity", displayName |-> "API"]],
      [state |-> "degraded", state_color |-> "amber", timestamp |-> "t2",
       details |-> EmptyDict],
      [state |-> "Unhealthy", state_color |-> "red", timestamp |-> "t2"],
      [state |-> "Critical", state_color |-> "red", timestamp |-> "t1"],
      [state |-> "", state_color |-> "gray", timestamp |-> "t1"],
      [details |-> [kind |-> "Entity"]] }

\* Records under the health tree: two full records, one without state keys
TreeRecords ==
    { [state |-> "Healthy", state_color |-> "green", timestamp |-> "t1",
       details |-> [kind |-> RootKind, displayName |-> "Shop"]],
      [state |-> "Unhealthy", state_color |-> "red", timestamp |-> "t2"],
      [details |-> [kind |-> "Entity"]] }

RecordIds == {"root", "api", "db"}

\* The insertion-ordered mappings id -> record with at most n entries
Snapshots(ids, recs, n) ==
    UNION { { s \in [1..k -> [key : ids, value : recs]] :
                \A i, j \in 1..k : i # j => s[i].key # s[j].key } : k \in 0..n }

RestClients == {[kind |-> "rest", response |-> r] : r \in Responses}
StubClients(recs) ==
    {[kind |-> "stub", records |-> s] : s \in Snapshots(RecordIds, recs, MaxRecords)}

\* self.api_client.get_all_entities_health()
api_client_get_all_entities_health(client) ==
    IF client.kind = "rest" THEN get_all_entities_health(client.response)
    ELSE client.records


\* ------------------------------------------------------------ entity graph

\* faulty variant: the edges are matched on their source
get_entity_dependencies_by_source(entity_id) ==
    SelectSeq(dependencies, LAMBDA d : d.source_entity_id = entity_id)

get_entity_dependencies(entity_id) ==
    SelectSeq(dependencies, LAMBDA d : d.target_entity_id = entity_id)

\* faulty variant: an edge stored more than once is returned once
get_entity_dependents_distinct(entity_id) ==
    LET first == SelectSeq([i \in 1..Len(dependencies) |-> i], LAMBDA i :
                     /\ dependencies[i].source_entity_id = entity_id
                     /\ \A j \in 1..(i - 1) : dependencies[j] # dependencies[i])
    IN  [k \in 1..Len(first) |-> dependencies[first[k]]]

get_entity_dependents(entity_id) ==
    SelectSeq(dependencies, LAMBDA d : d.source_entity_id = entity_id)

\* ---------------------------------------------------------------- views

\* faulty variant: only the ids of entities of the graph are listed
_get_entity_deps_resolved(entity_id) ==
    LET deps == SelectSeq(get_entity_dependencies(entity_id),
                          LAMBDA d : DictHas(entities, d.source_entity_id))
        dependents == SelectSeq(get_entity_dependents(entity_id),
                                LAMBDA d : DictHas(entities, d.target_entity_id))
    IN  [depends_on |-> [i \in 1..Len(deps) |-> deps[i].source_entity_id],
         depended_by |-> [i \in 1..Len(dependents) |-> dependents[i].target_entity_id]]

_get_entity_deps(entity_id) ==
    LET deps == get_entity_dependencies(entity_id)
        dependents == get_entity_dependents(entity_id)
    IN  [depends_on |-> [i \in 1..Len(deps) |-> deps[i].source_entity_id],
         depended_by |-> [i \in 1..Len(dependents) |-> dependents[i].target_entity_id]]

\* faulty variant: an absent state defaults to Healthy/green
tree_entry_healthy_default(entity_id, entity, health) ==
    [name |-> entity.name,
     type |-> EntityType[entity.entity_type],
     state |-> Get(health, "state", HealthState.HEALTHY),
     state_color |-> Get(health, "state_color", "green"),
     timestamp |-> Get(health, "timestamp", Now),
     parent |-> entity.parent_entity_id,
     signals |-> entity.signals,
     dependencies |-> _get_entity_deps(entity_id)]

tree_entry(entity_id, entity, health) ==
    [name |-> entity.name,
     type |-> EntityType[entity.entity_type],
     state |-> Get(health, "state", HealthState.UNKNOWN),
     state_color |-> Get(health, "state_color", "gray"),
     timestamp |-> Get(health, "timestamp", None),
     parent |-> entity.parent_entity_id,
     signals |-> entity.signals,
     dependencies |-> _get_entity_deps(entity_id)]

RECURSIVE tree_items(_, _, _)
tree_items(items, health_map, tree) ==
    IF items = <<>> THEN tree
    ELSE LET entity_id == Head(items).key
             entity == Head(items).value
             health == DictGet(health_map, entity_id, EmptyDict)
         IN  tree_items(Tail(items), health_map,
                        DictSet(tree, entity_id, tree_entry(entity_id, entity, health)))

\* faulty variant: only the entities that have a record get an entry
get_health_tree_joined(health_map) ==
    tree_items(SelectSeq(entities, LAMBDA it : DictHas(health_map, it.key)), health_map, <<>>)

get_health_tree(health_map) == tree_items(entities, health_map, <<>>)

\* faulty variant: the state is compared as it is, not lower-cased
bucket_of_exact(health) ==
    LET state == Get(health, "state", "Unknown")
    IN  IF state = "healthy" THEN "healthy"
        ELSE IF state = "degraded" THEN "degraded"
        ELSE IF state = "unhealthy" THEN "unhealthy"
        ELSE "unknown"

\* the bucket the if/elif chain picks for one record
bucket_of(health) ==
    LET state == lower(Get(health, "state", "Unknown"))
    IN  IF state = "healthy" THEN "healthy"
        ELSE IF state = "degraded" THEN "degraded"
        ELSE IF state = "unhealthy" THEN "unhealthy"
        ELSE "unknown"

Buckets == <<"healthy", "degraded", "unhealthy", "unknown">>

count_key(state) ==
    CASE state = "healthy" -> "healthy_count"
      [] state = "degraded" -> "degraded_count"
      [] state = "unhealthy" -> "unhealthy_count"
      [] state = "unknown" -> "unknown_count"

\* ---- Python floats (IEEE 754 binary64) on the values that occur ----
\* A natural number is its digits in base 2^15, least significant first,
\* without high zeros.  The operators bind their arguments through a local
\* function, so that each argument is evaluated once.
Base == 2^15
Digits == Seq(0..(Base - 1))

Digit(a, i) == IF i \in 1..Len(a) THEN a[i] ELSE 0

NNorm(a) ==
    LET norm[x \in Seq(Nat)] ==
            LET used == {i \in 1..Len(x) : x[i] # 0}
            IN  IF used = {} THEN <<>>
                ELSE SubSeq(x, 1, CHOOSE i \in used : \A j \in used : j <= i)
    IN  norm[a]

\* n < 2^30
NFromInt(n) == NNorm(<<n % Base, n \div Base>>)

\* the carry into digit i of x + y
Carry(x, y, i) ==
    IF \E j \in 1..(i - 1) :
          /\ Digit(x, j) + Digit(y, j) >= Base
          /\ \A k \in (j + 1)..(i - 1) : Digit(x, k) + Digit(y, k) = Base - 1
    THEN 1 ELSE 0

NAdd(a, b) ==
    LET sum[x \in Digits, y \in Digits] ==
            LET n == (IF Len(x) > Len(y) THEN Len(x) ELSE Len(y)) + 1
            IN  NNorm([i \in 1..n |-> (Digit(x, i) + Digit(y, i) + Carry(x, y, i)) % Base])
    IN  sum[a, b]

\* a * k for k < 2^15
NMul(a, k) ==
    LET mul[x \in Digits, n \in 0..(Base - 1)] ==
            NAdd(NNorm([i \in 1..Len(x) |-> (x[i] * n) % Base]),
                 NNorm(<<0>> \o [i \in 1..Len(x) |-> (x[i] * n) \div Base]))
    IN  mul[a, k]

\* a * 2^n
NShl(a, n) ==
    LET shl[x \in Digits, k \in Nat] ==
            LET r == k % 15
                part == [i \in 1..(Len(x) + 1) |->
                            (Digit(x, i) % 2^(15 - r)) * 2^r + Digit(x, i - 1) \div 2^(15 - r)]
            IN  NNorm([i \in 1..(k \div 15) |-> 0] \o part)
    IN  shl[a, n]

\* a \div 2^n
NShr(a, n) ==
    LET shr[x \in Digits, k \in Nat] ==
            LET q == k \div 15
                r == k % 15
            IN  NNorm([i \in 1..(Len(x) - q) |->
                         Digit(x, i + q) \div 2^r + (Digit(x, i + q + 1) % 2^r) * 2^(15 - r)])
    IN  shr[a, n]

\* a % 2^n
NLow(a, n) ==
    LET low[x \in Digits, k \in Nat] ==
            NNorm([i \in 1..(k \div 15 + 1) |->
                      IF i <= k \div 15 THEN Digit(x, i) ELSE Digit(x, i) % 2^(k % 15)])
    IN  low[a, n]

NLess(a, b) ==
    LET less[x \in Digits, y \in Digits] ==
            \/ Len(x) < Len(y)
            \/ /\ Len(x) = Len(y)
               /\ \E i \in 1..Len(x) :
                     /\ x[i] < y[i]
                     /\ \A j \in (i + 1)..Len(x) : x[j] = y[j]
    IN  less[a, b]

\* the number of bits of a, and the number of zero bits at its low end (a > 0)
BitLen(a) ==
    15 * (Len(a) - 1) + CHOOSE k \in 1..15 : 2^(k - 1) <= a[Len(a)] /\ a[Len(a)] < 2^k
LowZeros(a) ==
    LET i == CHOOSE j \in 1..Len(a) : a[j] # 0 /\ \A k \in 1..(j - 1) : a[k] = 0
    IN  15 * (i - 1) + CHOOSE k \in 0..14 : a[i] % 2^(k + 1) # 0 /\ a[i] % 2^k = 0

\* the number of significand bits of a binary64
Precision == 53

\* A float m * 2^e, written with m odd (or m = 0, e = 0)
Float(m, e) ==
    LET float[x \in Digits, k \in Int] ==
            IF x = <<>> THEN [m |-> <<>>, e |-> 0]
            ELSE [m |-> NShr(x, LowZeros(x)), e |-> k + LowZeros(x)]
    IN  float[m, e]

\* round to nearest, ties to even: keep the high Precision bits of m
Round(m, e) ==
    LET round[x \in Digits] ==
            LET d == BitLen(x) - Precision
                low == NLow(x, d)
                high == NShr(x, d)
                half == NShl(<<1>>, d - 1)
                up == \/ NLess(half, low)
                      \/ (low = half /\ high[1] % 2 = 1)
            IN  IF x = <<>> \/ d <= 0 THEN Float(x, e)
                ELSE Float(IF up THEN NAdd(high, <<1>>) ELSE high, e + d)
    IN  round[m]

\* int / int, correctly rounded (0 <= c <= t, 0 < t < 32): the leading one
\* of the quotient, then 26 and 26 more bits by long division
float_div(c, t) ==
    IF c = 0 THEN Float(<<>>, 0)
    ELSE LET s == CHOOSE k \in 0..5 : c * 2^k >= t /\ \A j \in 0..(k - 1) : c * 2^j < t
             r0 == c * 2^s - t
             q1 == (r0 * 2^26) \div t
             r1 == (r0 * 2^26) % t
             q2 == (r1 * 2^26) \div t
             r2 == (r1 * 2^26) % t
             quotient == NAdd(NShl(NFromInt(2^26 + q1), 26), NFromInt(q2))
             up == 2 * r2 > t \/ (2 * r2 = t /\ q2 % 2 = 1)
         IN  Float(IF up THEN NAdd(quotient, <<1>>) ELSE quotient,
                   0 - (s + Precision - 1))

\* float * int for an int that is a float itself
float_mul(x, k) == Round(NMul(x.m, k), x.e)

\* the largest snapshot either client returns
MaxTotal == IF MaxRecords > MaxItems THEN MaxRecords ELSE MaxItems

\* (count / total) * 100 for every count and total that occur, computed once
float_percentages ==
    [total \in 1..MaxTotal |->
        [count \in 0..total |-> float_mul(float_div(count, total), 100)]]

\* faulty variant: the percentage is cut to a whole number
percentage_floor(count, total) == Float(NFromInt((count * 100) \div total), 0)

\* (count / total) * 100
percentage(count, total) == float_percentages[total][count]
Zero == Float(<<>>, 0)

\* faulty variant: the total is the number of entities of the graph
empty_summary_of_graph(health_map) ==
    [timestamp |-> Now,
     total_entities |-> Len(entities),
     healthy_count |-> 0,
     degraded_count |-> 0,
     unhealthy_count |-> 0,
     unknown_count |-> 0,
     health_percentages |-> [b \in Range(Buckets) |-> Zero],
     entities_by_state |-> [b \in Range(Buckets) |-> <<>>]]

empty_summary(health_map) ==
    [timestamp |-> Now,
     total_entities |-> Len(health_map),
     healthy_count |-> 0,
     degraded_count |-> 0,
     unhealthy_count |-> 0,
     unknown_count |-> 0,
     health_percentages |-> [b \in Range(Buckets) |-> Zero],
     entities_by_state |-> [b \in Range(Buckets) |-> <<>>]]

\* faulty variant: no else branch, a record in no known state is dropped
RECURSIVE count_items_known_only(_, _)
count_items_known_only(items, summary) ==
    IF items = <<>> THEN summary
    ELSE LET entity_id == Head(items).key
             health == Head(items).value
             entity_name == Get(Get(health, "details", EmptyDict), "displayName", entity_id)
             b == bucket_of(health)
         IN  count_items_known_only(Tail(items),
                 IF b = "unknown" THEN summary
                 ELSE [summary EXCEPT
                         ![count_key(b)] = @ + 1,
                         !.entities_by_state[b] =
                             Append(@, [entity_id |-> entity_id, entity_name |-> entity_name])])

RECURSIVE count_items(_, _)
count_items(items, summary) ==
    IF items = <<>> THEN summary
    ELSE LET entity_id == Head(items).key
             health == Head(items).value
             entity_name == Get(Get(health, "details", EmptyDict), "displayName", entity_id)
             b == bucket_of(health)
         IN  count_items(Tail(items),
                 [summary EXCEPT
                    ![count_key(b)] = @ + 1,
                    !.entities_by_state[b] =
                        Append(@, [entity_id |-> entity_id, entity_name |-> entity_name])])

\* faulty variant: the percentages are computed whatever the total is
get_health_summary_unguarded(health_map) ==
    LET summary == count_items(health_map, empty_summary(health_map))
        total == summary.total_entities
    IN  IF total = 0 THEN [raises |-> "ZeroDivisionError"]
        ELSE [summary EXCEPT !.health_percentages =
                 [b \in Range(Buckets) |-> percentage(summary[count_key(b)], total)]]

get_health_summary(health_map) ==
    LET summary == count_items(health_map, empty_summary(health_map))
        total == summary.total_entities
    IN  IF total > 0
        THEN [summary EXCEPT !.health_percentages =
                 [b \in Range(Buckets) |-> percentage(summary[count_key(b)], total)]]
        ELSE summary

Placeholder == [state |-> "Unknown", state_color |-> "gray", state_code |-> "UNKNOWN"]

is_root(health) == Get(Get(health, "details", EmptyDict), "kind", None) = RootKind

\* faulty variant: only the first record is tested for the root marker
get_workload_health_first_only(health_map) ==
    IF health_map # <<>> THEN health_map[1].value ELSE Placeholder

\* faulty variant: without a root marker the last record is returned
get_workload_health_last_fallback(health_map) ==
    LET roots == {i \in 1..Len(health_map) : is_root(health_map[i].value)}
    IN  IF roots # {}
        THEN health_map[CHOOSE i \in roots : \A j \in roots : i <= j].value
        ELSE IF health_map # <<>> THEN health_map[Len(health_map)].value
        ELSE Placeholder

get_workload_health(health_map) ==
    LET roots == {i \in 1..Len(health_map) : is_root(health_map[i].value)}
    IN  IF roots # {}
        THEN health_map[CHOOSE i \in roots : \A j \in roots : i <= j].value
        ELSE IF health_map # <<>> THEN health_map[1].value
        ELSE Placeholder


\* get_entity_health: the client's record, named after the graph's entity
get_entity_health(entity_id) ==
    LET health == get_entity_health_state(entity_id, api_client.entity_response)
        entity == DictGet(entities, entity_id, None)
    IN  IF DictHas(entities, entity_id)
        THEN [entity_name |-> entity.name,
              entity_type |-> EntityType[entity.entity_type]] @@ health
        ELSE health

\* demo.py: the records counted by their state_color
demo_counts(all_entities) ==
    LET colored(colors) ==
            Cardinality({i \in 1..Len(all_entities) :
                            Get(all_entities[i].value, "state_color", "gray") \in colors})
        total == Len(all_entities)
    IN  [healthy |-> colored({"green"}),
         degraded |-> colored({"amber"}),
         unhealthy |-> colored({"red"}),
         unknown |-> total - colored({"green", "amber", "red"})]

\* -------------------------------------------------------- impact analysis

severity_levels == [critical |-> 3, high |-> 2, medium |-> 1, low |-> 0]
severity_map == (3 :> "critical") @@ (2 :> "high") @@ (1 :> "medium") @@ (0 :> "low")

SeqMax(s) == CHOOSE m \in Range(s) : \A x \in Range(s) : x <= m

\* faulty variant: the first dependent edge decides the severity
max_severity_first(dependents) ==
    Get(severity_levels, dependents[1].criticality, 0)

\* faulty variant: the least severe dependent edge decides the severity
max_severity_least(dependents) ==
    LET ranks == [i \in 1..Len(dependents) |->
                     Get(severity_levels, dependents[i].criticality, 0)]
    IN  CHOOSE m \in Range(ranks) : \A x \in Range(ranks) : m <= x

max_severity(dependents) ==
    SeqMax([i \in 1..Len(dependents) |-> Get(severity_levels, dependents[i].criticality, 0)])

\* faulty variant: an edge whose target is no entity gives an item too
affected_services_unresolved(dependents) ==
    [i \in 1..Len(dependents) |->
        [entity_id |-> dependents[i].target_entity_id,
         entity_name |->
             IF DictHas(entities, dependents[i].target_entity_id)
             THEN DictGet(entities, dependents[i].target_entity_id, None).name ELSE None,
         criticality |-> dependents[i].criticality,
         dependency_type |-> dependents[i].dependency_type]]

affected_services(dependents) ==
    LET resolved == SelectSeq(dependents, LAMBDA dep : DictHas(entities, dep.target_entity_id))
    IN  [i \in 1..Len(resolved) |->
            LET affected_entity == DictGet(entities, resolved[i].target_entity_id, None)
            IN  [entity_id |-> affected_entity.id,
                 entity_name |-> affected_entity.name,
                 criticality |-> resolved[i].criticality,
                 dependency_type |-> resolved[i].dependency_type]]

\* faulty variant: every edge that touches the entity counts as a dependent
get_dependency_impact_either_end(entity_id) ==
    LET dependents == SelectSeq(dependencies, LAMBDA dep :
                          \/ dep.source_entity_id = entity_id
                          \/ dep.target_entity_id = entity_id)
    IN  [failed_entity |-> entity_id,
         failed_entity_name |->
             IF DictHas(entities, entity_id)
             THEN DictGet(entities, entity_id, None).name ELSE None,
         affected_services |-> IF dependents # <<>> THEN affected_services(dependents) ELSE <<>>,
         impact_severity |->
             IF dependents # <<>>
             THEN Get(severity_map, max_severity(dependents), "low") ELSE "low"]

get_dependency_impact(entity_id) ==
    LET dependents == get_entity_dependents(entity_id)
        impact ==
            [failed_entity |-> entity_id,
             failed_entity_name |->
                 IF DictHas(entities, entity_id)
                 THEN DictGet(entities, entity_id, None).name ELSE None,
             affected_services |-> <<>>,
             impact_severity |-> "low"]
    IN  IF dependents # <<>>
        THEN [impact EXCEPT
                !.impact_severity = Get(severity_map, max_severity(dependents), "low"),
                !.affected_services = affected_services(dependents)]
        ELSE impact

\* faulty variant: no filter on the criticality
critical_deps_any(entity_id) == get_entity_dependencies(entity_id)

\* faulty variant: medium edges are followed too
critical_deps_with_medium(entity_id) ==
    SelectSeq(get_entity_dependencies(entity_id),
              LAMBDA d : d.criticality \in {"critical", "high", "medium"})

critical_deps(entity_id) ==
    SelectSeq(get_entity_dependencies(entity_id),
              LAMBDA d : d.criticality \in {"critical", "high"})

\* trace_critical with its closure variables visited and critical_path as st
RECURSIVE trace_critical(_, _)
RECURSIVE trace_each(_, _)

\* faulty variant: each branch works on its own copy of visited
trace_each_unshared(deps, st) ==
    IF deps = <<>> THEN st
    ELSE trace_each(Tail(deps),
             [visited |-> st.visited,
              critical_path |->
                  trace_critical(Head(deps).source_entity_id, st).critical_path])

trace_each(deps, st) ==
    IF deps = <<>> THEN st
    ELSE trace_each(Tail(deps), trace_critical(Head(deps).source_entity_id, st))

trace_critical(entity_id, st) ==
    IF entity_id \in st.visited THEN st
    ELSE trace_each(critical_deps(entity_id),
                    [visited |-> st.visited \cup {entity_id},
                     critical_path |-> Append(st.critical_path, entity_id)])

\* the interpreter's limit on nested calls (sys.getrecursionlimit())
RecursionLimit == 1000

get_critical_path ==
    trace_critical("root", [visited |-> {}, critical_path |-> <<>>]).critical_path


\* ------------------------------------------------------------ JSON export

\* the attributes the configuration is constructed with
model_id == "shop-health"
model_name == "Shop health"
description == "Health model of the shop"
owner_team == "platform"
version == "1.0.0"
created_at == "created"

\* faulty variant: the resource id is left out of the exported entity
entity_to_dict_without_resource(entity) ==
    [id |-> entity.id,
     name |-> entity.name,
     type |-> EntityType[entity.entity_type],
     description |-> entity.description,
     parentEntityId |-> entity.parent_entity_id,
     signals |-> entity.signals,
     metadata |-> entity.metadata]

\* HealthModelEntity.to_dict
entity_to_dict(entity) ==
    [id |-> entity.id,
     name |-> entity.name,
     type |-> EntityType[entity.entity_type],
     description |-> entity.description,
     parentEntityId |-> entity.parent_entity_id,
     azureResourceId |-> entity.azure_resource_id,
     signals |-> entity.signals,
     metadata |-> entity.metadata]

\* HealthModelConfig.to_dict
to_dict ==
    [modelId |-> model_id,
     modelName |-> model_name,
     description |-> description,
     ownerTeam |-> owner_team,
     version |-> version,
     createdAt |-> created_at,
     lastModified |-> last_modified,
     entities |->
         [i \in 1..Len(entities) |->
             [key |-> entities[i].key, value |-> entity_to_dict(entities[i].value)]],
     dependencies |->
         [i \in 1..Len(dependencies) |->
             [sourceEntityId |-> dependencies[i].source_entity_id,
              targetEntityId |-> dependencies[i].target_entity_id,
              dependencyType |-> dependencies[i].dependency_type,
              criticality |-> dependencies[i].criticality]]]

\* JSON text: None is written as null, a string as itself, an object with its
\* members in order; the members that may hold None are the two optional ids
null == "null"
json_value(x) == IF x = None THEN null ELSE x
python_value(x) == IF x = null THEN None ELSE x
OptionalKeys == {"parentEntityId", "azureResourceId"}

json_dump(data) ==
    [data EXCEPT !.entities =
        [i \in 1..Len(@) |->
            [key |-> @[i].key,
             value |-> [k \in DOMAIN @[i].value |->
                          IF k \in OptionalKeys THEN json_value(@[i].value[k])
                          ELSE @[i].value[k]]]]]

json_load(text) ==
    [text EXCEPT !.entities =
        [i \in 1..Len(@) |->
            [key |-> @[i].key,
             value |-> [k \in DOMAIN @[i].value |->
                          IF k \in OptionalKeys THEN python_value(@[i].value[k])
                          ELSE @[i].value[k]]]]]

\* export_to_json: the document written to the file
export_to_json == json_dump(to_dict)

\* EntityType(value): the member with that value
EntityTypeOf(value) == CHOOSE member \in DOMAIN EntityType : EntityType[member] = value
IsEntityTypeValue(value) == \E member \in DOMAIN EntityType : EntityType[member] = value

\* HealthModelEntity(...) from one exported entity
entity_from_dict(entity_data) ==
    [id |-> entity_data["id"],
     name |-> entity_data["name"],
     entity_type |-> EntityTypeOf(entity_data["type"]),
     description |-> entity_data["description"],
     parent_entity_id |-> Get(entity_data, "parentEntityId", None),
     azure_resource_id |-> Get(entity_data, "azureResourceId", None),
     signals |-> Get(entity_data, "signals", EmptyDict),
     metadata |-> Get(entity_data, "metadata", EmptyDict)]

\* config.add_entity for each exported entity, in the order of the document
RECURSIVE load_entities(_, _)
load_entities(items, loaded) ==
    IF items = <<>> THEN loaded
    ELSE LET entity == entity_from_dict(Head(items).value)
         IN  load_entities(Tail(items), DictSet(loaded, entity.id, entity))

\* config.add_dependency for each exported edge
load_dependencies(items) ==
    [i \in 1..Len(items) |->
        [source_entity_id |-> items[i]["sourceEntityId"],
         target_entity_id |-> items[i]["targetEntityId"],
         dependency_type |-> Get(items[i], "dependencyType", "direct"),
         criticality |-> Get(items[i], "criticality", "high")]]

\* faulty variant: a type string that EntityType does not know loads as custom
load_from_json_defaulting(text) ==
    LET known == [text EXCEPT !.entities =
                     [i \in 1..Len(@) |->
                         [@[i] EXCEPT !.value.type =
                             IF IsEntityTypeValue(@) THEN @ ELSE EntityType.CUSTOM]]]
        data == json_load(known)
        entity_items == Get(data, "entities", <<>>)
        dependency_items == Get(data, "dependencies", <<>>)
    IN  [model_id |-> Get(data, "modelId", None),
         model_name |-> Get(data, "modelName", None),
         description |-> Get(data, "description", None),
         owner_team |-> Get(data, "ownerTeam", None),
         version |-> Get(data, "version", "1.0.0"),
         created_at |-> Get(data, "createdAt", None),
         last_modified |->
             IF entity_items = <<>> /\ dependency_items = <<>>
             THEN Get(data, "lastModified", None) ELSE Now,
         entities |-> load_entities(entity_items, <<>>),
         dependencies |-> load_dependencies(dependency_items)]

\* load_from_json on the text of a file: the configuration it returns
load_from_json(text) ==
    LET data == json_load(text)
        entity_items == Get(data, "entities", <<>>)
        dependency_items == Get(data, "dependencies", <<>>)
    IN  IF \E i \in 1..Len(entity_items) : ~IsEntityTypeValue(entity_items[i].value["type"])
        THEN [raises |-> "ValueError"]
        ELSE [model_id |-> Get(data, "modelId", None),
              model_name |-> Get(data, "modelName", None),
              description |-> Get(data, "description", None),
              owner_team |-> Get(data, "ownerTeam", None),
              version |-> Get(data, "version", "1.0.0"),
              created_at |-> Get(data, "createdAt", None),
              last_modified |->
                  IF entity_items = <<>> /\ dependency_items = <<>>
                  THEN Get(data, "lastModified", None) ELSE Now,
              entities |-> load_entities(entity_items, <<>>),
              dependencies |-> load_dependencies(dependency_items)]


\* --------------------------------------------------------------- actions

Call(name, arg) == [name |-> name, arg |-> arg]

Called(name) == op.name = name

\* an operation returns r; fetched is the snapshot it took, <<>> if it took none
Return(name, arg, r, fetched) ==
    /\ op' = Call(name, arg)
    /\ result' = r
    /\ all_health' = fetched

add_entity(entity) ==
    /\ entities' = DictSet(entities, entity.id, entity)
    /\ last_modified' = Now
    /\ UNCHANGED <<dependencies, api_client>>
    /\ Return("add_entity", entity, None, <<>>)

\* faulty variant: an edge that is already in the list is not stored again
add_dependency_unique(dependency) ==
    /\ dependencies' = IF dependency \in Range(dependencies) THEN dependencies
                       ELSE Append(dependencies, dependency)
    /\ last_modified' = Now
    /\ UNCHANGED <<entities, api_client>>
    /\ Return("add_dependency", dependency, None, <<>>)

add_dependency(dependency) ==
    /\ dependencies' = Append(dependencies, dependency)
    /\ last_modified' = Now
    /\ UNCHANGED <<entities, api_client>>
    /\ Return("add_dependency", dependency, None, <<>>)

AddEntity == \E entity \in HealthModelEntity : add_entity(entity)

AddDependency ==
    /\ Len(dependencies) < MaxDeps
    /\ \E dependency \in EntityDependency : add_dependency(dependency)

AddTreeDependency ==
    /\ Len(dependencies) < MaxTreeDeps
    /\ \E dependency \in TreeDependency : add_dependency(dependency)

\* the remote health model answers the next list request differently
RemoteChange ==
    /\ api_client.kind = "rest"
    /\ \E r \in Responses :
         /\ r # api_client.response
         /\ api_client' = [api_client EXCEPT !.response = r]
    /\ UNCHANGED config
    /\ Return("remote_change", None, None, <<>>)

\* the remote health model answers the next request for one entity differently
RemoteEntityChange ==
    /\ \E r \in EntityResponses :
         /\ r # api_client.entity_response
         /\ api_client' = [api_client EXCEPT !.entity_response = r]
    /\ UNCHANGED config
    /\ Return("remote_change", None, None, <<>>)

\* the client's own queries, called directly
GetEntityHealthState ==
    \E entity_id \in EntityIds :
        /\ Return("get_entity_health_state", entity_id,
                  get_entity_health_state(entity_id, api_client.entity_response), <<>>)
        /\ UNCHANGED <<config, api_client>>

GetAllEntitiesHealth ==
    /\ Return("get_all_entities_health", None,
              get_all_entities_health(api_client.response), <<>>)
    /\ UNCHANGED <<config, api_client>>

GetEntityHealth ==
    \E entity_id \in EntityIds :
        /\ Return("get_entity_health", entity_id, get_entity_health(entity_id), <<>>)
        /\ UNCHANGED <<config, api_client>>

\* faulty variant: the tree looks the records up with setdefault, which puts
\* an empty record into the snapshot for every entity that has none
GetHealthTreeSetDefault ==
    LET fetched == api_client_get_all_entities_health(api_client)
        RECURSIVE filled(_, _)
        filled(i, records) ==
            IF i > Len(entities) THEN records
            ELSE filled(i + 1, IF DictHas(records, entities[i].key) THEN records
                               ELSE DictSet(records, entities[i].key, EmptyDict))
    IN  /\ Return("get_health_tree", None, get_health_tree(fetched), filled(1, fetched))
        /\ UNCHANGED <<config, api_client>>

GetHealthTree ==
    LET fetched == api_client_get_all_entities_health(api_client)
    IN  /\ Return("get_health_tree", None, get_health_tree(fetched), fetched)
        /\ UNCHANGED <<config, api_client>>

GetHealthSummary ==
    LET fetched == api_client_get_all_entities_health(api_client)
    IN  /\ Return("get_health_summary", None, get_health_summary(fetched), fetched)
        /\ UNCHANGED <<config, api_client>>

GetWorkloadHealth ==
    LET fetched == api_client_get_all_entities_health(api_client)
    IN  /\ Return("get_workload_health", None, get_workload_health(fetched), fetched)
        /\ UNCHANGED <<config, api_client>>

GetDependencyImpact ==
    \E entity_id \in EntityIds :
        /\ Return("get_dependency_impact", entity_id, get_dependency_impact(entity_id), <<>>)
        /\ UNCHANGED <<config, api_client>>

GetEntityDependencies ==
    \E entity_id \in EntityIds :
        /\ Return("get_entity_dependencies", entity_id, get_entity_dependencies(entity_id), <<>>)
        /\ UNCHANGED <<config, api_client>>

GetEntityDependents ==
    \E entity_id \in EntityIds :
        /\ Return("get_entity_dependents", entity_id, get_entity_dependents(entity_id), <<>>)
        /\ UNCHANGED <<config, api_client>>

\* get_critical_path on a graph whose walk stays below the recursion limit
GetCriticalPath ==
    /\ Len(dependencies) < RecursionLimit
    /\ Return("get_critical_path", None, get_critical_path, <<>>)
    /\ UNCHANGED <<config, api_client>>

\* get_critical_path call by call.  While it runs, op names the running
\* activation of trace_critical and result holds visited, critical_path and
\* the stack: one frame per activation with the critical_deps still to visit.
Frame(entity_id) == [entity_id |-> entity_id, critical_deps |-> critical_deps(entity_id)]

\* get_critical_path is entered and calls trace_critical("root")
EnterCriticalPath ==
    /\ ~Called("trace_critical")
    /\ Return("trace_critical", "root",
              [visited |-> {"root"},
               critical_path |-> <<"root">>,
               frames |-> <<Frame("root")>>], <<>>)
    /\ UNCHANGED <<config, api_client>>

\* the loop of the running activation calls trace_critical on the next edge
TraceCriticalCall ==
    /\ Called("trace_critical")
    /\ LET depth == Len(result.frames)
           top == result.frames[depth]
           entity_id == Head(top.critical_deps).source_entity_id
           frames == [result.frames EXCEPT ![depth].critical_deps = Tail(@)]
       IN  /\ top.critical_deps # <<>>
           /\ IF depth >= RecursionLimit
              THEN Return("get_critical_path", None, [raises |-> "RecursionError"], <<>>)
              ELSE IF entity_id \in result.visited
              THEN Return("trace_critical", top.entity_id,
                          [result EXCEPT !.frames = frames], <<>>)
              ELSE Return("trace_critical", entity_id,
                          [visited |-> result.visited \cup {entity_id},
                           critical_path |-> Append(result.critical_path, entity_id),
                           frames |-> Append(frames, Frame(entity_id))], <<>>)
    /\ UNCHANGED <<config, api_client>>

\* the loop of the running activation is over: it returns to its caller,
\* the first activation to get_critical_path, which returns critical_path
TraceCriticalReturn ==
    /\ Called("trace_critical")
    /\ LET depth == Len(result.frames)
       IN  /\ result.frames[depth].critical_deps = <<>>
           /\ IF depth = 1
              THEN Return("get_critical_path", None, result.critical_path, <<>>)
              ELSE Return("trace_critical", result.frames[depth - 1].entity_id,
                          [result EXCEPT !.frames = SubSeq(@, 1, depth - 1)], <<>>)
    /\ UNCHANGED <<config, api_client>>

\* export_to_json writes the document; result holds what the file holds
ExportToJson ==
    /\ Return("export_to_json", None, export_to_json, <<>>)
    /\ UNCHANGED <<config, api_client>>

\* Type strings an edited file may hold: a value of EntityType, a member
\* name, a value in another letter case, an abbreviation
TypeStrings == {"custom", "VM", "Workload", "vm"}

\* the file written last is edited by hand: one entity gets another type string
EditJson ==
    /\ Called("export_to_json")
    /\ \E i \in 1..Len(result.entities), type \in TypeStrings :
         /\ type # result.entities[i].value.type
         /\ Return("edit_json", None,
                   [result EXCEPT !.entities[i].value.type = type], <<>>)
    /\ UNCHANGED <<config, api_client>>

\* load_from_json reads the file as it is now; op.arg is the text read and
\* result the configuration it returns
LoadFromJson ==
    /\ Called("export_to_json") \/ Called("edit_json")
    /\ Return("load_from_json", result, load_from_json(result), <<>>)
    /\ UNCHANGED <<config, api_client>>

\* export_health_report value by value of the report it builds.  While it
\* runs, op.arg names the key of the report that was evaluated last and
\* result holds the report so far; with "critical_path" the report is
\* complete and written.
Exporting == Called("export_health_report") /\ op.arg # "critical_path"

\* "generated_at", "model" and "summary": get_health_summary fetches the records
ExportSummary ==
    LET fetched == api_client_get_all_entities_health(api_client)
    IN  /\ ~Exporting
        /\ Return("export_health_report", "summary",
                  [generated_at |-> Now,
                   model |-> model_name,
                   summary |-> get_health_summary(fetched)], fetched)
        /\ UNCHANGED <<config, api_client>>

\* "health_tree": get_health_tree fetches the records
ExportHealthTree ==
    LET fetched == api_client_get_all_entities_health(api_client)
    IN  /\ Called("export_health_report") /\ op.arg = "summary"
        /\ Return("export_health_report", "health_tree",
                  [health_tree |-> get_health_tree(fetched)] @@ result, fetched)
        /\ UNCHANGED <<config, api_client>>

\* "critical_path", then the report is written
ExportCriticalPath ==
    /\ Called("export_health_report") /\ op.arg = "health_tree"
    /\ Len(dependencies) < RecursionLimit
    /\ Return("export_health_report", "critical_path",
              [critical_path |-> get_critical_path] @@ result, <<>>)
    /\ UNCHANGED <<config, api_client>>

\* the program adds an entity between two operations
AddEntityBetweenCalls == ~Exporting /\ AddEntity

\* The list responses of a remote health model of at most MaxReportItems items
ReportResponses == {r \in Responses : Len(r.value) <= MaxReportItems}

\* the remote health model changes while the report is being built
RemoteChangeDuringExport ==
    /\ Exporting
    /\ \E r \in ReportResponses :
         /\ r # api_client.response
         /\ api_client' = [api_client EXCEPT !.response = r]
    /\ UNCHANGED <<config, all_health, op, result>>

\* ---------------------------------------------------------- specifications

InitWith(clients) ==
    /\ entities = <<>>
    /\ dependencies = <<>>
    /\ last_modified = "created"
    /\ api_client \in clients
    /\ all_health = <<>>
    /\ op = Call("init", None)
    /\ result = None

\* Summary and workload health over every client
Init == InitWith(RestClients \cup StubClients(HealthRecords))
Next == AddEntity \/ RemoteChange \/ GetHealthSummary \/ GetWorkloadHealth
Spec == Init /\ [][Next]_vars

\* The health tree and the summary over graphs with edges
InitTree == InitWith(RestClients \cup StubClients(TreeRecords))
NextTree == AddEntity \/ AddTreeDependency \/ GetHealthTree \/ GetHealthSummary
SpecTree == InitTree /\ [][NextTree]_vars

\* Impact analysis and the critical path over graphs
InitGraph == InitWith({[kind |-> "rest", response |-> [raises |-> None, value |-> <<>>]]})
NextGraph == AddEntity \/ AddDependency \/ GetDependencyImpact \/ GetCriticalPath
SpecGraph == InitGraph /\ [][NextGraph]_vars

\* The edge list and its two queries
InitEdges == InitGraph
NextEdges == AddDependency \/ GetEntityDependencies \/ GetEntityDependents
SpecEdges == InitEdges /\ [][NextEdges]_vars

\* A chain of n critical edges ending at "root": edge i leads from entity i
\* to entity i - 1, entity 0 being "root"
ChainId(i) == IF i = 0 THEN "root" ELSE ToString(i)
Chain(n) == [i \in 1..n |-> Dep(ChainId(i), ChainId(i - 1), "direct", "critical")]

\* The critical path call by call, over a short chain and over a chain as
\* long as the recursion limit
InitDeep ==
    /\ entities = <<>>
    /\ dependencies \in {Chain(MaxDeps), Chain(RecursionLimit)}
    /\ last_modified = "created"
    /\ api_client = [kind |-> "rest", response |-> [raises |-> None, value |-> <<>>]]
    /\ all_health = <<>>
    /\ op = Call("init", None)
    /\ result = None
NextDeep == EnterCriticalPath \/ TraceCriticalCall \/ TraceCriticalReturn
SpecDeep == InitDeep /\ [][NextDeep]_vars

\* Queries for one entity against a client whose requests succeed or fail
InitEntity ==
    InitWith({[kind |-> "rest", response |-> [raises |-> None, value |-> <<>>],
               entity_response |-> r] : r \in EntityResponses})
NextEntity == AddEntity \/ RemoteEntityChange \/ GetEntityHealth
SpecEntity == InitEntity /\ [][NextEntity]_vars

\* Every query, over graphs with edges and clients that hand their records over
InitQueries ==
    InitWith({[kind |-> "stub", records |-> s] :
                 s \in Snapshots(RecordIds, TreeRecords, MaxItems)})
NextQueries ==
    \/ AddEntity
    \/ AddTreeDependency
    \/ GetEntityDependencies
    \/ GetEntityDependents
    \/ GetHealthTree
    \/ GetHealthSummary
    \/ GetWorkloadHealth
    \/ GetDependencyImpact
    \/ GetCriticalPath
SpecQueries == InitQueries /\ [][NextQueries]_vars

\* The health report, built while the remote health model may change
InitReport == InitWith({[kind |-> "rest", response |-> r] : r \in ReportResponses})
NextReport ==
    \/ AddEntityBetweenCalls
    \/ RemoteChangeDuringExport
    \/ ExportSummary
    \/ ExportHealthTree
    \/ ExportCriticalPath
SpecReport == InitReport /\ [][NextReport]_vars

\* Loading files that were edited after the export
InitLoad == InitGraph
NextLoad == AddEntity \/ ExportToJson \/ EditJson \/ LoadFromJson
SpecLoad == InitLoad /\ [][NextLoad]_vars

\* The client alone, over every outcome of its two requests
InitClient ==
    InitWith({[kind |-> "rest", response |-> r, entity_response |-> e] :
                 r \in Responses, e \in EntityResponses})
NextClient ==
    RemoteChange \/ RemoteEntityChange \/ GetEntityHealthState \/ GetAllEntitiesHealth
SpecClient == InitClient /\ [][NextClient]_vars

\* Export and reload of graphs
InitJson == InitGraph
NextJson == AddEntity \/ AddDependency \/ ExportToJson \/ LoadFromJson
SpecJson == InitJson /\ [][NextJson]_vars



\* ------------------------------------------------------------ properties

NoDuplicates(s) == \A i, j \in 1..Len(s) : i # j => s[i] # s[j]
IsPrefix(s, t) == Len(s) <= Len(t) /\ \A i \in 1..Len(s) : s[i] = t[i]

\* C1: the health tree has exactly one entry per entity id of the graph, none
\* for an id that only the records hold, and the entries are in the order in
\* which the ids were first added (an id never moves once it is in the graph).
C1_TreeOnePerEntity ==
    /\ [](Called("get_health_tree") =>
            /\ DictKeys(result) = DictKeys(entities)
            /\ NoDuplicates(DictKeys(result))
            /\ \A k \in Range(DictKeys(all_health)) :
                   ~DictHas(entities, k) => ~DictHas(result, k))
    /\ [][IsPrefix(DictKeys(entities), DictKeys(entities'))]_vars

C1_Witness ==
    /\ Called("get_health_tree")
    /\ DictKeys(entities) = <<"db", "root">>
    /\ DictHas(all_health, "api")
    /\ ~DictHas(all_health, "root")
    /\ dependencies # <<>>

\* C3 as stated: in the example (entities root, api, db; records api Healthy
\* and db Unhealthy; no record for root) the summary counts healthy 1,
\* unhealthy 1, unknown 1 and total 3.
ExampleCase ==
    /\ Called("get_health_summary")
    /\ Range(DictKeys(entities)) = {"root", "api", "db"}
    /\ Range(DictKeys(all_health)) = {"api", "db"}
    /\ Get(DictGet(all_health, "api", EmptyDict), "state", None) = "Healthy"
    /\ Get(DictGet(all_health, "db", EmptyDict), "state", None) = "Unhealthy"

C3_Original ==
    ExampleCase =>
        /\ result.healthy_count = 1
        /\ result.unhealthy_count = 1
        /\ result.unknown_count = 1
        /\ result.total_entities = 3

ListedIds(summary) ==
    UNION {{e.entity_id : e \in Range(summary.entities_by_state[b])} : b \in Range(Buckets)}

\* C3 (amended): in the example the summary counts healthy 1, unhealthy 1,
\* unknown 0 and total 2; a graph entity with no health record is counted in
\* no bucket and not in the total.
C3_ExampleCountsRecordsOnly ==
    /\ ExampleCase =>
        /\ result.healthy_count = 1
        /\ result.unhealthy_count = 1
        /\ result.unknown_count = 0
        /\ result.degraded_count = 0
        /\ result.total_entities = 2
    /\ Called("get_health_summary") =>
        /\ result.total_entities = Len(all_health)
        /\ \A k \in Range(DictKeys(entities)) :
               ~DictHas(all_health, k) => k \notin ListedIds(result)

C3_Witness == ExampleCase /\ Len(dependencies) = 2

\* C9: in the health tree an entity without a record is Unknown, gray, with
\* a null timestamp; an entity with a record carries the record's state,
\* state_color and timestamp.
C9_TreeDefaults ==
    Called("get_health_tree") =>
        \A i \in 1..Len(entities) :
            LET k == entities[i].key
                entry == DictGet(result, k, EmptyDict)
                health == DictGet(all_health, k, EmptyDict)
            IN  IF ~DictHas(all_health, k)
                THEN /\ entry.state = "Unknown"
                     /\ entry.state_color = "gray"
                     /\ entry.timestamp = None
                ELSE \A f \in {"state", "state_color", "timestamp"} \cap DOMAIN health :
                         entry[f] = health[f]

C9_Witness ==
    /\ Called("get_health_tree")
    /\ \E k \in Range(DictKeys(entities)) : ~DictHas(all_health, k)
    /\ \E k \in Range(DictKeys(entities)) :
           /\ DictHas(all_health, k)
           /\ DictGet(result, k, EmptyDict).state = "Unhealthy"
           /\ DictGet(result, k, EmptyDict).timestamp = "t2"


BucketCount(summary, b) == summary[count_key(b)]

\* C2: the summary puts every record in exactly one of the four buckets: the
\* four counts add up to total_entities, which is the number of records, and
\* each count is the length of its entities_by_state list.
C2_SummaryPartition ==
    Called("get_health_summary") =>
        /\ result.healthy_count + result.degraded_count
             + result.unhealthy_count + result.unknown_count = result.total_entities
        /\ result.total_entities = Len(all_health)
        /\ \A b \in Range(Buckets) :
               BucketCount(result, b) = Len(result.entities_by_state[b])
        /\ \A i \in 1..Len(all_health) :
               Cardinality({<<b, j>> \in Range(Buckets) \X (1..Len(all_health)) :
                   /\ j <= Len(result.entities_by_state[b])
                   /\ result.entities_by_state[b][j].entity_id = all_health[i].key}) = 1

C2_Witness ==
    /\ Called("get_health_summary")
    /\ Len(all_health) = 3
    /\ result.healthy_count = 1
    /\ result.unhealthy_count = 1
    /\ result.unknown_count = 1

\* the spellings of the three known states
HealthyForms == {"Healthy", "healthy", "HEALTHY"}
DegradedForms == {"Degraded", "degraded", "DEGRADED"}
UnhealthyForms == {"Unhealthy", "unhealthy", "UNHEALTHY", "unHealthy"}

ExpectedBucket(health) ==
    IF "state" \notin DOMAIN health THEN "unknown"
    ELSE IF health.state \in HealthyForms THEN "healthy"
    ELSE IF health.state \in DegradedForms THEN "degraded"
    ELSE IF health.state \in UnhealthyForms THEN "unhealthy"
    ELSE "unknown"

InBucket(summary, b, k) == \E e \in Range(summary.entities_by_state[b]) : e.entity_id = k

\* C10: the summary buckets a record by its state in any letter case:
\* healthy, degraded and unhealthy go to the bucket of that name; any other
\* state string, the empty string and a record with no state go to unknown.
C10_BucketByLowerCasedState ==
    Called("get_health_summary") =>
        \A i \in 1..Len(all_health) :
            InBucket(result, ExpectedBucket(all_health[i].value), all_health[i].key)

C10_Witness ==
    /\ Called("get_health_summary")
    /\ \E i, j, k \in 1..Len(all_health) :
          /\ Get(all_health[i].value, "state", None) = "HEALTHY"
          /\ InBucket(result, "healthy", all_health[i].key)
          /\ Get(all_health[j].value, "state", None) = ""
          /\ InBucket(result, "unknown", all_health[j].key)
          /\ "state" \notin DOMAIN all_health[k].value
          /\ InBucket(result, "unknown", all_health[k].key)

HasRootMarker(health) ==
    /\ "details" \in DOMAIN health
    /\ "kind" \in DOMAIN health.details
    /\ health.details.kind = "System_HealthModelRoot"

\* C7: workload health is the record marked System_HealthModelRoot wherever
\* it sits in the records; of several marked records it is the first.
C7_WorkloadIsFirstRoot ==
    Called("get_workload_health") =>
        \A i \in 1..Len(all_health) :
            (/\ HasRootMarker(all_health[i].value)
             /\ \A j \in 1..(i - 1) : ~HasRootMarker(all_health[j].value))
            => result = all_health[i].value

C7_Witness ==
    /\ Called("get_workload_health")
    /\ Len(all_health) = 3
    /\ ~HasRootMarker(all_health[1].value)
    /\ HasRootMarker(all_health[2].value)
    /\ HasRootMarker(all_health[3].value)
    /\ all_health[2].value # all_health[3].value
    /\ result = all_health[2].value

RequestFailed == api_client.kind = "rest" /\ api_client.response.raises # None

\* C8: workload health always returns a record: without a marked record the
\* first record of the snapshot, and for an empty snapshot (also the one of a
\* failed list request) a placeholder with state Unknown and color gray.
C8_WorkloadFallback ==
    Called("get_workload_health") =>
        /\ DOMAIN result # {}
        /\ RequestFailed => all_health = <<>>
        /\ (all_health # <<>> /\ \A i \in 1..Len(all_health) : ~HasRootMarker(all_health[i].value))
               => result = all_health[1].value
        /\ all_health = <<>> =>
               /\ result.state = "Unknown"
               /\ result.state_color = "gray"

C8_Witness ==
    /\ Called("get_workload_health")
    /\ RequestFailed
    /\ result.state = "Unknown"
    /\ result.state_color = "gray"


Rank(criticality) ==
    CASE criticality = "critical" -> 3
      [] criticality = "high" -> 2
      [] criticality = "medium" -> 1
      [] OTHER -> 0

DependentEdges(entity_id) == {d \in Range(dependencies) : d.source_entity_id = entity_id}
Criticalities(edges) == [i \in 1..Len(edges) |-> edges[i].criticality]

\* C4: the impact severity is the label of the highest rank (critical 3, high
\* 2, medium 1, low 0, anything else 0) among the edges whose source is the
\* failed entity, whatever their order.
C4_SeverityIsMaxRank ==
    (Called("get_dependency_impact") /\ DependentEdges(op.arg) # {}) =>
        /\ result.impact_severity \in {"critical", "high", "medium", "low"}
        /\ \E d \in DependentEdges(op.arg) : Rank(d.criticality) = Rank(result.impact_severity)
        /\ \A d \in DependentEdges(op.arg) : Rank(d.criticality) <= Rank(result.impact_severity)

C4_Witness ==
    /\ Called("get_dependency_impact")
    /\ Criticalities(get_entity_dependents(op.arg)) = <<"medium", "critical", "high">>
    /\ result.impact_severity = "critical"

CriticalEdges == {d \in Range(dependencies) : d.criticality \in {"critical", "high"}}

\* the ids an id in S depends on through one critical or high edge
Required(S) == {d.source_entity_id : d \in {e \in CriticalEdges : e.target_entity_id \in S}}

RECURSIVE Closure(_)
Closure(S) == IF Required(S) \subseteq S THEN S ELSE Closure(S \cup Required(S))

\* C5: the critical path is computed for every graph, cycles and joining
\* paths included, and holds no id twice.
C5_PathHasNoRepeats ==
    Called("get_critical_path") => NoDuplicates(result)

C5_Witness ==
    /\ Called("get_critical_path")
    /\ Dep("db", "root", "direct", "critical") \in Range(dependencies)
    /\ Dep("root", "db", "direct", "high") \in Range(dependencies)
    /\ Dep("api", "root", "direct", "critical") \in Range(dependencies)
    /\ result = <<"root", "db", "api">>

\* the first critical or high edge, in insertion order, from id to an id not in seen
OpenEdges(id, seen) ==
    SelectSeq(dependencies, LAMBDA d :
        /\ d.target_entity_id = id
        /\ d.criticality \in {"critical", "high"}
        /\ d.source_entity_id \notin seen)

\* C6: the critical path is the depth-first pre-order from the start id: it
\* starts with the start id, holds exactly the ids reachable over critical or
\* high edges from dependent (target) to requirement (source), and each next
\* id is the first open requirement, in edge insertion order, of the latest id
\* that still has one.
C6_PathIsPreorder ==
    Called("get_critical_path") =>
        /\ result # <<>>
        /\ result[1] = "root"
        /\ Range(result) = Closure({"root"})
        /\ \A i \in 2..Len(result) :
               LET seen == {result[k] : k \in 1..(i - 1)}
                   open == {j \in 1..(i - 1) : OpenEdges(result[j], seen) # <<>>}
               IN  /\ open # {}
                   /\ LET p == CHOOSE j \in open : \A k \in open : k <= j
                      IN  result[i] = OpenEdges(result[p], seen)[1].source_entity_id

C6_Witness ==
    /\ Called("get_critical_path")
    /\ dependencies = << Dep("db", "api", "optional", "medium"),
                         Dep("api", "root", "direct", "critical"),
                         Dep("root", "db", "direct", "high") >>
    /\ result = <<"root", "api">>

\* ---- percentages ----
\* x * k and n as naturals on the common scale 2^(-x.e), for k < 2^15 and
\* n < 2^30; a float of the model is never negative
Lhs(x, k) == NShl(NMul(x.m, k), IF x.e > 0 THEN x.e ELSE 0)
Rhs(x, n) == NShl(NFromInt(n), IF x.e < 0 THEN 0 - x.e ELSE 0)

\* x = 100 * count / total in the rationals
IsExactPercentage(x, count, total) == Lhs(x, total) = Rhs(x, 100 * count)

\* |x - 100 * count / total| < 1/1000000
IsNearPercentage(x, count, total) ==
    LET a == NMul(NMul(Lhs(x, total), 1000), 1000)
        b == NMul(NMul(Rhs(x, 100 * count), 1000), 1000)
        c == Rhs(x, total)
    IN  NLess(a, NAdd(b, c)) /\ NLess(b, NAdd(a, c))

AtMost100(x) == ~NLess(Rhs(x, 100), Lhs(x, 1))

\* the four counts of a summary, and the percentages of four counts
CountsOf(summary) == [b \in Range(Buckets) |-> summary[count_key(b)]]
TotalOf(c) == c["healthy"] + c["degraded"] + c["unhealthy"] + c["unknown"]
PercentagesOf(c) == [b \in Range(Buckets) |-> percentage(c[b], TotalOf(c))]
AllCounts == {c \in [Range(Buckets) -> 0..MaxTotal] : TotalOf(c) \in 1..MaxTotal}

\* the sum of four percentages in the rationals, as m * 2^e
PercentageSum(p) ==
    LET emin == CHOOSE e \in {p[b].e : b \in Range(Buckets)} :
                    \A b \in Range(Buckets) : e <= p[b].e
        at(b) == NShl(p[b].m, p[b].e - emin)
    IN  [m |-> NAdd(NAdd(at(Buckets[1]), at(Buckets[2])),
                    NAdd(at(Buckets[3]), at(Buckets[4]))),
         e |-> emin]

\* the comparisons, worked out once for every count and total that occur
is_exact ==
    [total \in 1..MaxTotal |->
        [count \in 0..total |-> IsExactPercentage(percentage(count, total), count, total)]]
is_near ==
    [total \in 1..MaxTotal |->
        [count \in 0..total |->
            /\ IsNearPercentage(percentage(count, total), count, total)
            /\ AtMost100(percentage(count, total))]]
sum_is_exact == [c \in AllCounts |-> IsExactPercentage(PercentageSum(PercentagesOf(c)), 1, 1)]
sum_is_near == [c \in AllCounts |-> IsNearPercentage(PercentageSum(PercentagesOf(c)), 1, 1)]

\* C11 as stated: over a non-empty snapshot each percentage is exactly
\* 100 * count / total, lies in [0, 100], and the four add up to exactly 100.
C11_Original ==
    (Called("get_health_summary") /\ result.total_entities > 0) =>
        /\ result.health_percentages = PercentagesOf(CountsOf(result))
        /\ \A b \in Range(Buckets) :
               /\ is_exact[result.total_entities][BucketCount(result, b)]
               /\ is_near[result.total_entities][BucketCount(result, b)]
        /\ sum_is_exact[CountsOf(result)]

\* C11: over a non-empty snapshot each percentage is the float
\* (count / total) * 100, which is within 1e-6 of 100 * count / total and lies
\* in [0, 100], and the four add up to 100 within 1e-6.
C11_PercentagesNearExact ==
    (Called("get_health_summary") /\ result.total_entities > 0) =>
        /\ result.health_percentages = PercentagesOf(CountsOf(result))
        /\ \A b \in Range(Buckets) :
               is_near[result.total_entities][BucketCount(result, b)]
        /\ sum_is_near[CountsOf(result)]

C11_Witness ==
    /\ Called("get_health_summary")
    /\ result.total_entities = 3
    /\ result.healthy_count = 1
    /\ result.degraded_count = 2
    /\ ~is_exact[3][1]
    /\ result.health_percentages["healthy"] = percentage(1, 3)

\* C12: the summary of an empty snapshot is returned without an exception and
\* has total_entities 0, the four counts 0, the four percentages 0.0 and the
\* four entities_by_state lists empty.
C12_EmptySnapshotSummary ==
    (Called("get_health_summary") /\ all_health = <<>>) =>
        /\ "raises" \notin DOMAIN result
        /\ result.total_entities = 0
        /\ \A b \in Range(Buckets) :
               /\ BucketCount(result, b) = 0
               /\ result.health_percentages[b] = Zero
               /\ result.entities_by_state[b] = <<>>

C12_Witness ==
    /\ Called("get_health_summary")
    /\ all_health = <<>>
    /\ entities # <<>>
    /\ result.total_entities = 0
    /\ result.health_percentages["unknown"] = Zero

\* C13: for an entity that is the source of no edge, in the graph or not, the
\* impact names the entity as failed_entity, lists no affected service and has
\* the severity "low".
C13_NoDependentsLowImpact ==
    (/\ Called("get_dependency_impact")
     /\ \A i \in 1..Len(dependencies) : dependencies[i].source_entity_id # op.arg) =>
        /\ result.failed_entity = op.arg
        /\ result.affected_services = <<>>
        /\ result.impact_severity = "low"

C13_Witness ==
    /\ Called("get_dependency_impact")
    /\ ~DictHas(entities, op.arg)
    /\ DictHas(entities, "db")
    /\ \E i \in 1..Len(dependencies) : dependencies[i].target_entity_id = op.arg
    /\ \A i \in 1..Len(dependencies) : dependencies[i].source_entity_id # op.arg
    /\ result.impact_severity = "low"

\* the positions of the dependent edges of entity_id whose target is an entity
ResolvedEdges(entity_id) ==
    {i \in 1..Len(dependencies) :
        /\ dependencies[i].source_entity_id = entity_id
        /\ DictHas(entities, dependencies[i].target_entity_id)}

\* the k-th smallest element of a set of positions
Nth(positions, k) ==
    CHOOSE i \in positions : Cardinality({j \in positions : j <= i}) = k

\* C14: affected_services holds, in the order of the edge list, one item for
\* each edge whose source is the entity and whose target is an entity of the
\* graph: the target's id and name and the edge's criticality and
\* dependency_type.  An edge to no entity gives no item; an edge stored twice
\* gives two.
C14_AffectedServicesPerEdge ==
    Called("get_dependency_impact") =>
        /\ Len(result.affected_services) = Cardinality(ResolvedEdges(op.arg))
        /\ \A k \in 1..Len(result.affected_services) :
               LET dep == dependencies[Nth(ResolvedEdges(op.arg), k)]
               IN  result.affected_services[k] =
                       [entity_id |-> dep.target_entity_id,
                        entity_name |-> DictGet(entities, dep.target_entity_id, None).name,
                        criticality |-> dep.criticality,
                        dependency_type |-> dep.dependency_type]

C14_Witness ==
    /\ Called("get_dependency_impact")
    /\ Len(dependencies) = 3
    /\ dependencies[1] = dependencies[3]
    /\ dependencies[1].source_entity_id = op.arg
    /\ dependencies[2].source_entity_id = op.arg
    /\ ~DictHas(entities, dependencies[2].target_entity_id)
    /\ Len(result.affected_services) = 2
    /\ result.affected_services[1] = result.affected_services[2]

\* the critical and high edges of an edge list, in its order
CriticalOnly(edges) == SelectSeq(edges, LAMBDA d : d.criticality \in {"critical", "high"})

\* the depth-first walk from entity_id against the edges of an edge list, the
\* edges into an entity taken in list order
RECURSIVE Walk(_, _, _)
RECURSIVE WalkEach(_, _, _)
Walk(edges, entity_id, path) ==
    IF entity_id \in Range(path) THEN path
    ELSE WalkEach(edges,
                  SelectSeq(edges, LAMBDA d : d.target_entity_id = entity_id),
                  Append(path, entity_id))
WalkEach(edges, into, path) ==
    IF into = <<>> THEN path
    ELSE WalkEach(edges, Tail(into), Walk(edges, Head(into).source_entity_id, path))

\* C15: the critical path is a function of the critical and high edges alone,
\* in their order: it is the walk over the edge list with every other edge
\* taken out, so adding, removing or moving medium, low or otherwise marked
\* edges does not change it.
C15_PathIgnoresOtherEdges ==
    Called("get_critical_path") =>
        result = Walk(CriticalOnly(dependencies), "root", <<>>)

C15_Witness ==
    /\ Called("get_critical_path")
    /\ Len(result) >= 2
    /\ \E i, j \in 1..Len(dependencies) :
          /\ i < j
          /\ dependencies[i].criticality = "medium"
          /\ dependencies[i].target_entity_id \in Range(result)
          /\ dependencies[i].source_entity_id \notin Range(result)
          /\ dependencies[j].criticality \in {"critical", "high"}
          /\ dependencies[j].target_entity_id = "root"
          /\ dependencies[j].source_entity_id # "root"

\* C16: the configuration that load_from_json returns for the document that
\* export_to_json wrote has the same entity ids in the same order, every
\* entity field equal (id, name, type, description, parent id, resource id,
\* signals, metadata), and the same edges with the same fields in the same
\* order.
C16_ExportLoadRoundTrip ==
    Called("load_from_json") =>
        /\ "raises" \notin DOMAIN result
        /\ DictKeys(result.entities) = DictKeys(entities)
        /\ \A i \in 1..Len(entities) : result.entities[i].value = entities[i].value
        /\ result.dependencies = dependencies

C16_Witness ==
    /\ Called("load_from_json")
    /\ DictKeys(result.entities) = <<"db", "api", "root">>
    /\ DictGet(result.entities, "api", None).entity_type = "VM"
    /\ DictGet(result.entities, "db", None).azure_resource_id # None
    /\ DictGet(result.entities, "root", None).parent_entity_id = None
    /\ Len(result.dependencies) = 3
    /\ result.dependencies[1] = result.dependencies[3]
    /\ result.dependencies[2].target_entity_id = "cache"

\* the positions of the edges whose target, or source, is entity_id
TargetPositions(entity_id) ==
    {i \in 1..Len(dependencies) : dependencies[i].target_entity_id = entity_id}
SourcePositions(entity_id) ==
    {i \in 1..Len(dependencies) : dependencies[i].source_entity_id = entity_id}

\* s holds the edges at the given positions of the edge list, in list order
IsEdgesAt(s, positions) ==
    /\ Len(s) = Cardinality(positions)
    /\ \A k \in 1..Len(s) : s[k] = dependencies[Nth(positions, k)]

\* C17: get_entity_dependencies returns the edges whose target is the entity,
\* one for each time such an edge was added, in the order they were added,
\* and no other edge.
C17_DependenciesByTarget ==
    Called("get_entity_dependencies") => IsEdgesAt(result, TargetPositions(op.arg))

C17_Witness ==
    /\ Called("get_entity_dependencies")
    /\ Len(dependencies) = 3
    /\ dependencies[1] = dependencies[3]
    /\ dependencies[2].target_entity_id # op.arg
    /\ dependencies[2].source_entity_id = op.arg
    /\ result = <<dependencies[1], dependencies[3]>>

\* C18: get_entity_dependents returns the edges whose source is the entity,
\* one for each time such an edge was added, in the order they were added,
\* and no other edge.
C18_DependentsBySource ==
    Called("get_entity_dependents") => IsEdgesAt(result, SourcePositions(op.arg))

C18_Witness ==
    /\ Called("get_entity_dependents")
    /\ Len(dependencies) = 3
    /\ dependencies[1] = dependencies[3]
    /\ dependencies[2].source_entity_id # op.arg
    /\ dependencies[2].target_entity_id = op.arg
    /\ result = <<dependencies[1], dependencies[3]>>

\* C19: add_entity puts the entity under its id and leaves every other id
\* with its entity and its place: a new id goes last, an id that is already
\* there keeps its place and takes the new entity, the number of entities
\* then stays the same, and the call returns without an exception.  So the
\* map holds for each id the entity added last under it.
C19_AddEntityOverwritesById ==
    [][op'.name = "add_entity" =>
          LET entity == op'.arg
          IN  /\ result' = None
              /\ DictGet(entities', entity.id, None) = entity
              /\ \A i \in 1..Len(entities) :
                     /\ entities'[i].key = entities[i].key
                     /\ entities[i].key # entity.id => entities'[i] = entities[i]
              /\ Len(entities') =
                     IF DictHas(entities, entity.id) THEN Len(entities)
                     ELSE Len(entities) + 1
              /\ NoDuplicates(DictKeys(entities'))
              /\ \A i \in 1..Len(entities') : entities'[i].key = entities'[i].value.id]_vars

C19_Witness ==
    /\ Called("add_entity")
    /\ op.arg.name = "API v2"
    /\ DictKeys(entities) = <<"api", "db", "root">>
    /\ DictGet(entities, "api", None) = op.arg

\* C20: add_dependency appends its edge at the end of the edge list and
\* returns without an exception, whatever the endpoints are and whether or
\* not an equal edge is in the list; every edge can be added in every state.
C20_AddDependencyAppends ==
    /\ [][op'.name = "add_dependency" =>
            /\ result' = None
            /\ dependencies' = Append(dependencies, op'.arg)]_vars
    /\ [](Len(dependencies) < MaxDeps =>
            \A dependency \in EntityDependency : ENABLED add_dependency(dependency))

C20_Witness ==
    /\ Called("add_dependency")
    /\ Len(dependencies) = 3
    /\ dependencies[3] = op.arg
    /\ dependencies[1] = op.arg
    /\ DictHas(entities, op.arg.source_entity_id)
    /\ ~DictHas(entities, op.arg.target_entity_id)

Raised(r) == \E e \in {"RecursionError", "KeyError", "AttributeError", "ZeroDivisionError"} :
                 r = [raises |-> e]

\* C22: get_health_tree, get_health_summary, get_workload_health,
\* get_dependency_impact and get_critical_path return without an exception for
\* every graph and every snapshot.
C22_QueriesNeverRaise ==
    (\E name \in {"get_health_tree", "get_health_summary", "get_workload_health",
                  "get_dependency_impact", "get_critical_path"} : Called(name))
        => ~Raised(result)

\* ---- single-entity queries ----

\* C23: a single-entity health query whose request fails returns a locally
\* built record with state Unknown and state_color gray (it neither raises nor
\* returns nothing), and get_entity_health adds entity_name and entity_type,
\* taken from the graph's entity, exactly when the queried id is an entity.
C23_FailedQueryYieldsUnknown ==
    Called("get_entity_health") =>
        /\ api_client.entity_response.raises # None =>
               /\ {"entity_id", "state", "state_color"} \subseteq DOMAIN result
               /\ result.entity_id = op.arg
               /\ result.state = "Unknown"
               /\ result.state_color = "gray"
               /\ ~DictHas(entities, op.arg) =>
                      {"entity_name", "entity_type"} \cap DOMAIN result = {}
        /\ DictHas(entities, op.arg) =>
               LET entity == DictGet(entities, op.arg, None)
               IN  /\ result.entity_name = entity.name
                   /\ result.entity_type = EntityType[entity.entity_type]
        /\ ~DictHas(entities, op.arg) => "entity_type" \notin DOMAIN result

C23_Witness ==
    /\ Called("get_entity_health")
    /\ api_client.entity_response.raises = "RequestException"
    /\ op.arg = "api"
    /\ DictKeys(entities) = <<"root", "api">>
    /\ result.state = "Unknown"
    /\ result.entity_type = "virtual_machine"

\* ---- the client's records ----

ColorOf ==
    [Healthy |-> "green", Degraded |-> "amber", Unhealthy |-> "red", Unknown |-> "gray"]

\* the state a healthState names, whatever its letter case
StateNamed(health_state) ==
    CASE health_state \in {"Healthy", "healthy", "HEALTHY"} -> "Healthy"
      [] health_state \in {"Degraded", "degraded", "DEGRADED"} -> "Degraded"
      [] health_state \in {"Unhealthy", "unhealthy", "UNHEALTHY"} -> "Unhealthy"
      [] OTHER -> "Unknown"

ExpectedState(item) ==
    IF "properties" \in DOMAIN item /\ "healthState" \in DOMAIN item.properties
    THEN StateNamed(item.properties.healthState)
    ELSE "Unknown"

IsClientRecord(record) ==
    /\ {"state", "state_color"} \subseteq DOMAIN record
    /\ record.state \in DOMAIN ColorOf
    /\ record.state_color = ColorOf[record.state]

\* the item of the list response that the record of id was made from
LastItem(items, id) ==
    LET at == {j \in 1..Len(items) : Get(items[j], "id", None) = id}
    IN  items[CHOOSE j \in at : \A k \in at : k <= j]

\* C24: every record the client produces (for one entity, failed or not, and
\* in the list of all entities) has a state among Healthy, Degraded, Unhealthy,
\* Unknown and the colour that belongs to that state; the state is the one the
\* API's healthState names in any letter case, and Unknown when healthState is
\* missing, not a string or not recognised.
C24_ClientRecordsNormalised ==
    /\ Called("get_entity_health_state") =>
           /\ IsClientRecord(result)
           /\ api_client.entity_response.raises = None =>
                  result.state = ExpectedState(api_client.entity_response.value)
    /\ Called("get_all_entities_health") =>
           /\ \A j \in 1..Len(api_client.response.value) :
                  DictHas(result, Get(api_client.response.value[j], "id", None))
           /\ \A i \in 1..Len(result) :
                  /\ IsClientRecord(result[i].value)
                  /\ result[i].value.state =
                         ExpectedState(LastItem(api_client.response.value, result[i].key))

C24_Witness ==
    /\ Called("get_all_entities_health")
    /\ DictKeys(result) = <<"api", "cache">>
    /\ api_client.response.value[1].properties.healthState = "degraded"
    /\ DictGet(result, "api", None).state = "Degraded"
    /\ DictGet(result, "api", None).state_color = "amber"
    /\ DictGet(result, "cache", None).state_color = "gray"

\* ---- loading ----

EntityTypeValues == {EntityType[member] : member \in DOMAIN EntityType}

\* C25: load_from_json on a file in which some entity's type string is not a
\* value of EntityType ends in an error and returns no configuration (no
\* entity is given a default type such as custom); a file whose type strings
\* are all values loads, each entity with the member of that value.
C25_UnknownTypeFailsLoad ==
    Called("load_from_json") =>
        LET items == op.arg.entities
        IN  IF \E i \in 1..Len(items) : items[i].value.type \notin EntityTypeValues
            THEN DOMAIN result = {"raises"} /\ result.raises = "ValueError"
            ELSE /\ "raises" \notin DOMAIN result
                 /\ \A i \in 1..Len(items) :
                        EntityType[DictGet(result.entities, items[i].key, None).entity_type]
                            = items[i].value.type

C25_Witness ==
    /\ Called("load_from_json")
    /\ Len(op.arg.entities) = 2
    /\ op.arg.entities[1].value.type = "workload"
    /\ op.arg.entities[2].value.type = "VM"
    /\ result = [raises |-> "ValueError"]

\* ---- queries ----

GraphQueries == {"get_entity_dependencies", "get_entity_dependents",
                 "get_dependency_impact", "get_critical_path"}
SnapshotQueries == {"get_health_tree", "get_health_summary", "get_workload_health"}

\* C26: a step of one of the seven queries leaves the entity map, the edge
\* list and their order as they were, and leaves the records as the client
\* handed them over: the snapshot the operation holds at its end is the
\* client's, and the client still holds the same records.
C26_QueriesReadOnly ==
    [][op'.name \in GraphQueries \cup SnapshotQueries =>
          /\ entities' = entities
          /\ dependencies' = dependencies
          /\ last_modified' = last_modified
          /\ api_client' = api_client
          /\ op'.name \in SnapshotQueries =>
                 all_health' = api_client_get_all_entities_health(api_client)]_vars

C26_Witness ==
    /\ Called("get_health_tree")
    /\ DictKeys(entities) = <<"db", "api", "root">>
    /\ Len(dependencies) = MaxTreeDeps
    /\ DictKeys(all_health) = <<"api">>
    /\ all_health = api_client.records
    /\ DictGet(result, "db", EmptyDict).state = "Unknown"

\* ---- the health report ----

\* the bucket of the summary that lists entity_id, "" if none does
ListedBucket(summary, entity_id) ==
    LET listing == {b \in Range(Buckets) :
                       \E n \in 1..Len(summary.entities_by_state[b]) :
                           summary.entities_by_state[b][n].entity_id = entity_id}
    IN  IF listing = {} THEN "" ELSE CHOOSE b \in listing : TRUE

\* C27: in a complete health report every entity that is in the health tree
\* and listed in the summary is listed in the bucket of its state in the tree,
\* as summary and health_tree derived from one records snapshot would make it.
C27_ReportFromOneSnapshot ==
    (Called("export_health_report") /\ op.arg = "critical_path") =>
        \A i \in 1..Len(result.health_tree) :
            LET entity_id == result.health_tree[i].key
                listed == ListedBucket(result.summary, entity_id)
            IN  listed # "" => listed = bucket_of(result.health_tree[i].value)

\* ---- the ids of the critical path ----

\* C28: every id in the sequence that get_critical_path returns is the id of
\* an entity of the graph.
C28_PathOfEntities ==
    Called("get_critical_path") =>
        \A n \in 1..Len(result) : DictHas(entities, result[n])

\* ---- severity and the listed services ----

\* C29: in every dependency_impact result the impact_severity ranks at least
\* as high as the criticality of every item of affected_services.  (It is the
\* maximum over all dependent edges, so it can rank above every listed item:
\* the witness has one listed item of criticality high under severity
\* critical, which comes from an edge whose target is no entity.)
C29_SeverityCoversListed ==
    Called("get_dependency_impact") =>
        \A n \in 1..Len(result.affected_services) :
            Rank(result.impact_severity) >= Rank(result.affected_services[n].criticality)

C29_Witness ==
    /\ Called("get_dependency_impact")
    /\ op.arg = "db"
    /\ ~DictHas(entities, "root")
    /\ Len(result.affected_services) = 1
    /\ result.affected_services[1].criticality = "high"
    /\ result.impact_severity = "critical"

\* ---- two ways of counting ----

\* C30: for a snapshot that the client's normalisation produced, counting the
\* records by state_color (green, amber, red, anything else) as demo.py does
\* gives the four counts of get_health_summary: healthy, degraded, unhealthy
\* and unknown.
C30_ColourCountsAreStateCounts ==
    (Called("get_health_summary") /\ api_client.kind = "rest") =>
        demo_counts(all_health) = CountsOf(result)

C30_Witness ==
    /\ Called("get_health_summary")
    /\ api_client.kind = "rest"
    /\ Len(all_health) = MaxItems
    /\ demo_counts(all_health).degraded = 1
    /\ demo_counts(all_health).unknown = 1
    /\ result.degraded_count = 1
    /\ result.unknown_count = 1

====
